---- MODULE Spec2Model ----
(***************************************************************************)
(* A model of egobox's mixture-of-experts core:                            *)
(*   - egobox-moe/src/surrogates.rs : the GP surrogate variants, their     *)
(*     persistence (save / load) and the "{mean}_{corr}" dispatch of load; *)
(*   - moe/src/gaussian_mixture.rs  : the Gaussian mixture probability     *)
(*     engine (construction by Cholesky factorization, responsibilities,   *)
(*     hard assignment, the M-step parameter estimation).                  *)
(***************************************************************************)
EXTENDS Integers, Sequences, FiniteSets, TLC

VARIABLES
    disk,   \* the file system: path -> file content
    gp,     \* the trained surrogate the caller holds (Box<dyn GpSurrogate>), or NoGp
    res,    \* the last surrogate operation and its outcome
    gmix,   \* the GaussianMixture the caller holds, or NoMixture
    gres    \* the last mixture operation and its outcome

svars == <<disk, gp, res>>
gvars == <<gmix, gres>>
vars == <<disk, gp, res, gmix, gres>>

(***************************************************************************)
(* Results.  A Rust call ends in Ok(v), in Err(e) or in a panic (unwrap on *)
(* None / Err aborts the thread).                                          *)
(***************************************************************************)
Ok(v) == [status |-> "Ok", value |-> v]
Err(kind, msg) == [status |-> "Err", kind |-> kind, msg |-> msg]
Panic(at) == [status |-> "Panic", at |-> at]

Some(v) == [some |-> TRUE, v |-> v]
None == [some |-> FALSE, v |-> ""]

(***************************************************************************)
(* The twelve surrogate variants: declare_surrogate!(Regr, Corr).          *)
(***************************************************************************)
MeanNames == {"Constant", "Linear", "Quadratic"}
CorrNames == {"SquaredExponential", "AbsoluteExponential", "Matern32", "Matern52"}

DeclaredSurrogates ==
    << <<"Constant", "SquaredExponential">>,
       <<"Constant", "AbsoluteExponential">>,
       <<"Constant", "Matern32">>,
       <<"Constant", "Matern52">>,
       <<"Linear", "SquaredExponential">>,
       <<"Linear", "AbsoluteExponential">>,
       <<"Linear", "Matern32">>,
       <<"Linear", "Matern52">>,
       <<"Quadratic", "SquaredExponential">>,
       <<"Quadratic", "AbsoluteExponential">>,
       <<"Quadratic", "Matern32">>,
       <<"Quadratic", "Matern52">> >>

Variants == {DeclaredSurrogates[i] : i \in 1..Len(DeclaredSurrogates)}

(***************************************************************************)
(* JSON values (serde_json::Value) and the persisted record.               *)
(***************************************************************************)
\* A field value: its kind, and its text (a string) or its numbers (a number,
\* an array, the numbers of a structured blob).
JNull == [t |-> "null", s |-> "", a |-> << >>]
JStr(x) == [t |-> "str", s |-> x, a |-> << >>]
JNum(n) == [t |-> "num", s |-> "", a |-> <<n>>]
JArr(a) == [t |-> "arr", s |-> "", a |-> a]
JBlob(a) == [t |-> "obj", s |-> "", a |-> a]

\* A document: an object of named field values, or a top-level array.
JObj(m) == [t |-> "obj", m |-> m]
JTopArr(m) == [t |-> "arr", m |-> m]

DataFields == <<"theta", "inner_params", "w_star", "xtrain", "ytrain">>
RecordKeys == {"mean", "corr"} \cup {DataFields[i] : i \in 1..Len(DataFields)}

\* data[key]: indexing a Value by a string gives Null when the value is not
\* an object or has no such key.
Index(data, key) ==
    IF data.t = "obj" /\ key \in DOMAIN data.m THEN data.m[key] ELSE JNull

\* Value::as_str
as_str(v) == IF v.t = "str" THEN Some(v.s) ELSE None

(***************************************************************************)
(* Trained surrogates.  A Gp<Regr><Corr>Surrogate wraps the GaussianProcess *)
(* of the egobox_gp engine; the model keeps the variant (the two macro     *)
(* identifiers) and the five persisted fields.  The engine's numbers are   *)
(* opaque here: two distinct bundles of distinct payloads.                 *)
(***************************************************************************)
GpDataChoices ==
    { [theta |-> <<11>>, inner_params |-> <<12>>, w_star |-> <<13>>,
       xtrain |-> <<14, 15>>, ytrain |-> <<16, 17>>],
      [theta |-> <<21, 22>>, inner_params |-> <<23>>, w_star |-> << >>,
       xtrain |-> <<24>>, ytrain |-> <<25>>] }

Surrogate(regr, corr, theta, inner_params, w_star, xtrain, ytrain) ==
    [regr |-> regr, corr |-> corr, theta |-> theta, inner_params |-> inner_params,
     w_star |-> w_star, xtrain |-> xtrain, ytrain |-> ytrain]

TrainedSurrogates ==
    { Surrogate(v[1], v[2], d.theta, d.inner_params, d.w_star, d.xtrain, d.ytrain) :
        v \in Variants, d \in GpDataChoices }

NoGp == [regr |-> "none"]

\* The record GaussianProcess serializes to (the engine's Serialize impl):
\* the names of the mean and correlation models and the five fields.
SerializeGp(g) ==
    JObj([mean |-> JStr(g.regr), corr |-> JStr(g.corr),
          theta |-> JArr(g.theta), inner_params |-> JBlob(g.inner_params),
          w_star |-> JArr(g.w_star), xtrain |-> JArr(g.xtrain),
          ytrain |-> JArr(g.ytrain)])

\* serde_json::to_string(self)
to_string(g) == Ok(SerializeGp(g))

\* The JSON kind each persisted field decodes from.
ExpectedKind(field) == IF field = "inner_params" THEN "obj" ELSE "arr"

\* serde_json::from_value(json!(data[field])) for one persisted field
from_value(data, field) ==
    LET v == Index(data, field)
    IN  IF v.t = ExpectedKind(field) THEN Ok(v.a) ELSE Err("serde_json::Error", field)

\* GpValidParams::from(mean, corr, theta, inner_params, w_star, xtrain, ytrain)
GpFrom(regr, corr, theta, inner_params, w_star, xtrain, ytrain) ==
    Ok(Surrogate(regr, corr, theta, inner_params, w_star, xtrain, ytrain))

\* self.0.kpls_dim(): the PLS dimension of the engine's process, none when
\* no projection is in use (w_star is empty then).
kpls_dim(g) == IF g.w_star = << >> THEN [some |-> FALSE, v |-> 0] ELSE Some(Len(g.w_star))

\* (mutation: the names in the other order)
Display_Swapped(g) ==
    g.corr \o "_" \o g.regr
      \o (IF kpls_dim(g).some THEN "_PLS(" \o ToString(kpls_dim(g).v) \o ")" ELSE "")

\* Display::fmt: write!(f, "{}_{}{}", stringify!($regr), stringify!($corr), ..)
Display(g) ==
    g.regr \o "_" \o g.corr
      \o (IF kpls_dim(g).some THEN "_PLS(" \o ToString(kpls_dim(g).v) \o ")" ELSE "")

(***************************************************************************)
(* Files.  A file holds text: a JSON document, or bytes that do not parse  *)
(* as JSON (an empty file, a partially written record).                    *)
(***************************************************************************)
NoDoc == JTopArr(<< >>)
NoFile == [k |-> "none", doc |-> NoDoc]
EmptyFile == [k |-> "empty", doc |-> NoDoc]
PartialFile == [k |-> "partial", doc |-> NoDoc]
JsonFile(doc) == [k |-> "json", doc |-> doc]

Paths == {"save_gp.json", "nodir/save_gp.json"}

\* fs::File::create succeeds unless the directory is missing.
Creatable(path) == path # "nodir/save_gp.json"

\* fs::read_to_string
read_to_string(fs, path) ==
    IF fs[path].k = "none" THEN Err("io::Error", "No such file or directory")
    ELSE Ok(fs[path])

\* serde_json::from_str
from_str(text) ==
    IF text.k = "json" THEN Ok(text.doc) ELSE Err("serde_json::Error", "EOF while parsing")

(***************************************************************************)
(* make_surrogate!(Regr, Corr, data): the five fields are decoded with     *)
(* unwrap, in order, then handed to GpValidParams::from(..)?               *)
(***************************************************************************)
RECURSIVE FirstUndecodable(_, _)
FirstUndecodable(data, i) ==
    IF i > Len(DataFields) THEN 0
    ELSE IF from_value(data, DataFields[i]).status # "Ok" THEN i
    ELSE FirstUndecodable(data, i + 1)

\* A slip in the order of the macro's arguments: ytrain decoded into xtrain.
make_surrogate_swapped(regr, corr, data) ==
    LET bad == FirstUndecodable(data, 1)
    IN  IF bad # 0 THEN Panic(DataFields[bad])
        ELSE GpFrom(regr, corr,
                    from_value(data, "theta").value,
                    from_value(data, "inner_params").value,
                    from_value(data, "w_star").value,
                    from_value(data, "ytrain").value,
                    from_value(data, "xtrain").value)

make_surrogate(regr, corr, data) ==
    LET bad == FirstUndecodable(data, 1)
    IN  IF bad # 0 THEN Panic(DataFields[bad])
        ELSE GpFrom(regr, corr,
                    from_value(data, "theta").value,
                    from_value(data, "inner_params").value,
                    from_value(data, "w_star").value,
                    from_value(data, "xtrain").value,
                    from_value(data, "ytrain").value)

(***************************************************************************)
(* load(path)                                                              *)
(***************************************************************************)
\* format!("{}_{}", mean, corr)
gp_kind(mean, corr) == mean \o "_" \o corr

\* The arms of the match in load, in order: the literal key and the macro call.
LoadArms ==
    << [key |-> "Constant_SquaredExponential", regr |-> "Constant", corr |-> "SquaredExponential"],
       [key |-> "Constant_AbsoluteExponential", regr |-> "Constant", corr |-> "AbsoluteExponential"],
       [key |-> "Constant_Matern32", regr |-> "Constant", corr |-> "Matern32"],
       [key |-> "Constant_Matern52", regr |-> "Constant", corr |-> "Matern52"],
       [key |-> "Linear_SquaredExponential", regr |-> "Linear", corr |-> "SquaredExponential"],
       [key |-> "Linear_AbsoluteExponential", regr |-> "Linear", corr |-> "AbsoluteExponential"],
       [key |-> "Linear_Matern32", regr |-> "Linear", corr |-> "Matern32"],
       [key |-> "Linear_Matern52", regr |-> "Linear", corr |-> "Matern52"],
       [key |-> "Quadratic_SquaredExponential", regr |-> "Quadratic", corr |-> "SquaredExponential"],
       [key |-> "Quadratic_AbsoluteExponential", regr |-> "Quadratic", corr |-> "AbsoluteExponential"],
       [key |-> "Quadratic_Matern32", regr |-> "Quadratic", corr |-> "Matern32"],
       [key |-> "Quadratic_Matern52", regr |-> "Quadratic", corr |-> "Matern52"] >>

KnownKeys == {LoadArms[i].key : i \in 1..Len(LoadArms)}

\* The default arm with a message that leaves the key out.
BadKindError_NoKey(kind) == Err("LoadError", "Bad mean or kernel values")

\* The error of the default arm.
BadKindError(kind) == Err("LoadError", "Bad mean or kernel values: " \o kind)

MatchKind(kind, data) ==
    IF kind \in KnownKeys
    THEN LET arm == LoadArms[CHOOSE i \in 1..Len(LoadArms) : LoadArms[i].key = kind]
         IN  make_surrogate(arm.regr, arm.corr, data)
    ELSE BadKindError(kind)

\* load with the read unwrapped instead of propagated.
load_unwrap_read(fs, path) ==
    LET text == read_to_string(fs, path)
    IN  IF text.status # "Ok" THEN Panic("read_to_string")
        ELSE LET data == from_str(text.value)
             IN  IF data.status # "Ok" THEN data
                 ELSE LET mean == as_str(Index(data.value, "mean"))
                          corr == as_str(Index(data.value, "corr"))
                      IN  IF ~mean.some THEN Panic("mean")
                          ELSE IF ~corr.some THEN Panic("corr")
                          ELSE MatchKind(gp_kind(mean.v, corr.v), data.value)

load(fs, path) ==
    LET text == read_to_string(fs, path)
    IN  IF text.status # "Ok" THEN text
        ELSE LET data == from_str(text.value)
             IN  IF data.status # "Ok" THEN data
                 ELSE LET mean == as_str(Index(data.value, "mean"))
                          corr == as_str(Index(data.value, "corr"))
                      IN  IF ~mean.some THEN Panic("mean")
                          ELSE IF ~corr.some THEN Panic("corr")
                          ELSE MatchKind(gp_kind(mean.v, corr.v), data.value)

(***************************************************************************)
(* GpSurrogate::save(path)                                                 *)
(*   wr is what write_all meets: "ok", or an I/O failure that leaves the   *)
(*   created file empty ("fail_empty") or partly written ("fail_partial"). *)
(*   The result is the call's outcome and the file left at path.           *)
(***************************************************************************)
WriteOutcomes == {"ok", "fail_empty", "fail_partial"}

save(g, fs, path, wr) ==
    IF ~Creatable(path)
    THEN [out |-> Panic("File::create"), file |-> fs[path]]
    ELSE LET bytes == to_string(g)
         IN  IF bytes.status # "Ok"
             THEN [out |-> Err("SaveError", "serialization"), file |-> EmptyFile]
             ELSE IF wr = "ok"
             THEN [out |-> Ok(0), file |-> JsonFile(bytes.value)]
             ELSE [out |-> Err("io::Error", "write_all"),
                   file |-> IF wr = "fail_empty" THEN EmptyFile ELSE PartialFile]

(***************************************************************************)
(* Files other programs leave on disk: records with an unknown mean/corr   *)
(* pair, with a malformed tag, with a missing or undecodable field.        *)
(***************************************************************************)
BaseRecord == SerializeGp(Surrogate("Linear", "Matern52", <<31>>, <<32>>,
                                    <<33>>, <<34>>, <<35>>)).m

Without(rec, key) == [k \in (DOMAIN rec) \ {key} |-> rec[k]]

UnknownKindRecords ==
    { [BaseRecord EXCEPT !["mean"] = JStr("Cubic")],
      [BaseRecord EXCEPT !["corr"] = JStr("Gaussian")],
      [BaseRecord EXCEPT !["mean"] = JStr("linear")],
      [BaseRecord EXCEPT !["mean"] = JStr("Matern52"), !["corr"] = JStr("Linear")],
      [BaseRecord EXCEPT !["mean"] = JStr(""), !["corr"] = JStr("Linear_Matern52")],
      [BaseRecord EXCEPT !["mean"] = JStr("Linear_Matern52"), !["corr"] = JStr("")] }

MalformedKindRecords ==
    { Without(BaseRecord, k) : k \in {"mean", "corr"} }
    \cup { [BaseRecord EXCEPT ![k] = JNum(3)] : k \in {"mean", "corr"} }
    \cup { [BaseRecord EXCEPT ![k] = JNull] : k \in {"mean", "corr"} }

MalformedFieldRecords ==
    { Without(BaseRecord, DataFields[i]) : i \in 1..Len(DataFields) }
    \cup { [BaseRecord EXCEPT ![DataFields[i]] = JStr("x")] : i \in 1..Len(DataFields) }

ForeignFiles ==
    { JsonFile(JObj(r)) : r \in UnknownKindRecords \cup MalformedKindRecords
                                 \cup MalformedFieldRecords }
    \cup { JsonFile(JObj(BaseRecord)), JsonFile(JTopArr(BaseRecord)), EmptyFile }

(***************************************************************************)
(* Numbers of the mixture.  F (f32 or f64 in the code) is modelled in      *)
(* fixed point: the integer v stands for v / Scale.  The special values of *)
(* IEEE arithmetic are kept (-inf from ln(0), +inf, NaN), and so are exp's *)
(* underflow to 0 and overflow to +inf, at f64's thresholds.  The result   *)
(* of exp is held by its logarithm (it may be far below the resolution):   *)
(* Exp(l) stands for e^(l / Scale).                                        *)
(***************************************************************************)
Scale == 10000

Abs(a) == IF a < 0 THEN -a ELSE a
Sign(a) == IF a < 0 THEN -1 ELSE 1
Max(a, b) == IF a >= b THEN a ELSE b

\* x * y for x, y >= 0, rounded to the resolution.
MulNat(x, y) ==
    (x \div Scale) * (y \div Scale) * Scale + (x \div Scale) * (y % Scale)
      + (x % Scale) * (y \div Scale) + ((x % Scale) * (y % Scale) + Scale \div 2) \div Scale

\* a * b, rounded to the resolution.
FxMul(a, b) == (Sign(a) * Sign(b)) * MulNat(Abs(a), Abs(b))

\* x / y for x >= 0, y > 0, rounded to the resolution.
DivNat(x, y) == (x \div y) * Scale + ((x % y) * Scale + y \div 2) \div y

\* a / b (b # 0), rounded to the resolution.
FxDiv(a, b) == (Sign(a) * Sign(b)) * DivNat(Abs(a), Abs(b))

\* sqrt(v) for v >= 0, by Newton's iteration.
RECURSIVE NewtonSqrt(_, _)
NewtonStep(v, x, nxt) == IF nxt >= x THEN x ELSE NewtonSqrt(v, nxt)

NewtonSqrt(v, x) == NewtonStep(v, x, (x + FxDiv(v, x)) \div 2)

FxSqrt(v) == IF v = 0 THEN 0 ELSE NewtonSqrt(v, Max(v, Scale))

\* ln(2) and ln(2 pi) at the resolution.
Ln2 == 6931
LnTwoPi == 18379

\* 2 atanh(z) = 2 z (1 + z^2 / 3 + z^4 / 5 + z^6 / 7), z2 = z^2.
AtanhSeries(z, z2) ==
    2 * FxMul(z, Scale + FxMul(z2, Scale \div 3
                                     + FxMul(z2, Scale \div 5 + FxMul(z2, Scale \div 7))))

LnOfRatio(z) == AtanhSeries(z, FxMul(z, z))

\* ln(m / Scale) for Scale <= m < 2 Scale: 2 atanh((m - 1) / (m + 1)).
LnMantissa(m) == LnOfRatio(FxDiv(m - Scale, m + Scale))

\* ln(v) for v > 0: v = m 2^k with 1 <= m < 2.
RECURSIVE FxLn(_)
FxLn(v) ==
    IF v >= 2 * Scale THEN Ln2 + FxLn(v \div 2)
    ELSE IF v < Scale THEN FxLn(2 * v) - Ln2
    ELSE LnMantissa(v)

\* e^(-r) for 0 <= r < ln 2, by its Taylor series.
ExpSeries(r) ==
    Scale - FxMul(r, Scale - FxMul(r \div 2, Scale - FxMul(r \div 3,
                Scale - FxMul(r \div 4, Scale - FxMul(r \div 5, Scale - r \div 6)))))

\* t / 2^k
Halved(t, k) == IF k > 20 THEN 0 ELSE (t + 2^k \div 2) \div 2^k

\* e^(-d) for d >= 0: d = k ln 2 + r.
FxExpNeg(d) == Halved(ExpSeries(d % Ln2), d \div Ln2)

\* The values of F.
Fin(v) == [c |-> "fin", v |-> v]
Exp(l) == [c |-> "exp", v |-> l]
PInf == [c |-> "pinf", v |-> 0]
NInf == [c |-> "ninf", v |-> 0]
NaN == [c |-> "nan", v |-> 0]

\* exp(x) = 0 below ExpUnderflow / Scale and +inf above ExpOverflow / Scale
\* (f64: ln(2^-1075) and ln(f64::MAX)).
ExpUnderflow == -7451332
ExpOverflow == 7097827

\* Scalar::exp
FExp(x) ==
    CASE x.c = "nan" -> NaN
      [] x.c = "pinf" -> PInf
      [] x.c = "ninf" -> Fin(0)
      [] x.c = "fin" -> IF x.v < ExpUnderflow THEN Fin(0)
                        ELSE IF x.v > ExpOverflow THEN PInf
                        ELSE Exp(x.v)

\* Scalar::ln
FLn(x) ==
    CASE x.c = "nan" -> NaN
      [] x.c = "pinf" -> PInf
      [] x.c = "ninf" -> NaN
      [] x.c = "exp" -> Fin(x.v)
      [] x.c = "fin" -> IF x.v < 0 THEN NaN
                        ELSE IF x.v = 0 THEN NInf
                        ELSE Fin(FxLn(x.v))

\* a + b for a, b finite or special
FAdd(a, b) ==
    CASE a.c = "nan" \/ b.c = "nan" -> NaN
      [] a.c = "pinf" -> IF b.c = "ninf" THEN NaN ELSE PInf
      [] a.c = "ninf" -> IF b.c = "pinf" THEN NaN ELSE NInf
      [] b.c = "pinf" -> PInf
      [] b.c = "ninf" -> NInf
      [] OTHER -> Fin(a.v + b.v)

FNeg(a) ==
    CASE a.c = "pinf" -> NInf
      [] a.c = "ninf" -> PInf
      [] a.c = "nan" -> NaN
      [] OTHER -> Fin(-a.v)

FSub(a, b) == FAdd(a, FNeg(b))

\* a + b for results of exp (0, Exp(l), +inf, NaN):
\* ln(e^x + e^y) = max(x, y) + ln(1 + e^(-|x - y|)).
FAddExp(a, b) ==
    CASE a.c = "nan" \/ b.c = "nan" -> NaN
      [] a.c = "pinf" \/ b.c = "pinf" -> PInf
      [] a.c = "fin" -> b
      [] b.c = "fin" -> a
      [] OTHER -> Exp(Max(a.v, b.v) + FxLn(Scale + FxExpNeg(Abs(a.v - b.v))))

\* a > b for results of exp, neither NaN.
FGreaterExp(a, b) ==
    CASE a.c = "pinf" -> b.c # "pinf"
      [] a.c = "fin" -> FALSE
      [] b.c = "pinf" -> FALSE
      [] b.c = "fin" -> TRUE
      [] OTHER -> a.v > b.v

(***************************************************************************)
(* Arrays: Array1 is a sequence, Array2 a sequence of rows, Array3 a       *)
(* sequence of matrices.                                                   *)
(***************************************************************************)
RECURSIVE SumSeq(_)
SumSeq(s) == IF Len(s) = 0 THEN 0 ELSE s[1] + SumSeq(Tail(s))

Transpose(M) ==
    IF Len(M) = 0 THEN << >>
    ELSE [j \in 1..Len(M[1]) |-> [i \in 1..Len(M) |-> M[i][j]]]

\* Array::eye(n)
Eye(n) == [i \in 1..n |-> [j \in 1..n |-> IF i = j THEN Scale ELSE 0]]

\* a.dot(b) for matrices
MatMul(A, B) ==
    [i \in 1..Len(A) |->
        [j \in 1..Len(B[1]) |->
            SumSeq([k \in 1..Len(B) |-> FxMul(A[i][k], B[k][j])])]]

\* covariance.cholesky(UPLO::Lower): column j of the factor from the lower
\* triangle of A; the factorization fails at the first pivot that is not
\* positive.  The upper triangle of the factor is zero.
RECURSIVE CholeskyFrom(_, _, _)
CholeskyNext(A, Lj, j) == IF j = Len(A) THEN Ok(Lj) ELSE CholeskyFrom(A, Lj, j + 1)

CholeskyColumn(A, L, j, ljj) ==
    CholeskyNext(A,
                 [i \in 1..Len(A) |->
                    [c \in 1..Len(A) |->
                       IF c # j THEN L[i][c]
                       ELSE IF i < j THEN 0
                       ELSE IF i = j THEN ljj
                       ELSE FxDiv(A[i][j]
                                    - SumSeq([k \in 1..(j - 1) |-> FxMul(L[i][k], L[j][k])]),
                                  ljj)]],
                 j)

CholeskyPivot(A, L, j, ajj) ==
    IF ajj <= 0 THEN Err("LinalgError", "not positive definite")
    ELSE CholeskyColumn(A, L, j, FxSqrt(ajj))

CholeskyFrom(A, L, j) ==
    CholeskyPivot(A, L, j,
                  A[j][j] - SumSeq([k \in 1..(j - 1) |-> FxMul(L[j][k], L[j][k])]))

cholesky(A) ==
    IF Len(A) = 0 THEN Ok(A)
    ELSE CholeskyFrom(A, [i \in 1..Len(A) |-> [c \in 1..Len(A) |-> 0]], 1)

\* cov_chol.solve_triangular(UPLO::Lower, Diag::NonUnit, b): forward
\* substitution, row i of the solution of L y = b; fails on a zero pivot.
RECURSIVE SolveFrom(_, _, _, _)
SolveNext(L, B, Yi, i) == IF i = Len(L) THEN Ok(Yi) ELSE SolveFrom(L, B, Yi, i + 1)

SolveFrom(L, B, Y, i) ==
    IF L[i][i] = 0 THEN Err("LinalgError", "singular")
    ELSE SolveNext(L, B,
                   [r \in 1..Len(L) |->
                      IF r # i THEN Y[r]
                      ELSE [c \in 1..Len(B[1]) |->
                              FxDiv(B[i][c]
                                      - SumSeq([k \in 1..(i - 1) |->
                                                  FxMul(L[i][k], Y[k][c])]),
                                    L[i][i])]],
                   i)

solve_triangular(L, B) ==
    IF Len(L) = 0 THEN Ok(B) ELSE SolveFrom(L, B, B, 1)

(***************************************************************************)
(* GaussianMixture                                                         *)
(***************************************************************************)
\* sol.reversed_axes().to_owned(), or the error of the solve
TransposedSolution(sol) == IF sol.status # "Ok" THEN sol ELSE Ok(Transpose(sol.value))

\* the solve of a slice from its Cholesky factor, or the error of the factor
SolveIdentity(cov_chol, n_features) ==
    IF cov_chol.status # "Ok" THEN cov_chol
    ELSE TransposedSolution(solve_triangular(cov_chol.value, Eye(n_features)))

\* One slice of compute_precisions_cholesky_full's loop: the transposed
\* inverse of the Cholesky factor of the covariance.
PrecisionCholeskyOf(covariance) == SolveIdentity(cholesky(covariance), Len(covariance))

\* compute_precisions_cholesky_full: slice by slice from k on; the first
\* failure ends the loop with its error.
RECURSIVE PrecisionsCholeskyFrom(_, _, _)
\* (mutation: only a failure of the first slice ends the loop)
PrecisionsCholeskyAssign_FirstOnly(covariances, precisions_chol, k, pk) ==
    IF pk.status # "Ok" /\ k = 1 THEN pk
    ELSE PrecisionsCholeskyFrom(covariances,
                                Append(precisions_chol,
                                       IF pk.status = "Ok" THEN pk.value
                                       ELSE Eye(Len(covariances[k]))),
                                k + 1)

PrecisionsCholeskyAssign(covariances, precisions_chol, k, pk) ==
    IF pk.status # "Ok" THEN pk
    ELSE PrecisionsCholeskyFrom(covariances, Append(precisions_chol, pk.value), k + 1)

PrecisionsCholeskyFrom(covariances, precisions_chol, k) ==
    IF k > Len(covariances) THEN Ok(precisions_chol)
    ELSE PrecisionsCholeskyAssign(covariances, precisions_chol, k,
                                  PrecisionCholeskyOf(covariances[k]))

compute_precisions_cholesky_full(covariances) ==
    PrecisionsCholeskyFrom(covariances, << >>, 1)

compute_precisions_full(precisions_chol) ==
    [k \in 1..Len(precisions_chol) |->
        MatMul(precisions_chol[k], Transpose(precisions_chol[k]))]

\* GaussianMixture::new after compute_precisions_cholesky_full(...)?
GaussianMixtureFrom(weights, means, covariances, precisions_chol) ==
    IF precisions_chol.status # "Ok" THEN precisions_chol
    ELSE Ok([weights |-> weights,
             means |-> means,
             covariances |-> covariances,
             precisions |-> compute_precisions_full(precisions_chol.value),
             precisions_chol |-> precisions_chol.value,
             heaviside_factor |-> Scale])

\* GaussianMixture::new
GaussianMixtureNew(weights, means, covariances) ==
    GaussianMixtureFrom(weights, means, covariances,
                        compute_precisions_cholesky_full(covariances))

\* (mutation: the factor is applied to the stored covariances)
with_heaviside_factor_stored(gm, heaviside_factor) ==
    [gm EXCEPT !.heaviside_factor = heaviside_factor,
               !.covariances = [k \in 1..Len(gm.covariances) |->
                                  [i \in 1..Len(gm.covariances[k]) |->
                                     [j \in 1..Len(gm.covariances[k][i]) |->
                                        FxMul(gm.covariances[k][i][j], heaviside_factor)]]]]

\* with_heaviside_factor
with_heaviside_factor(gm, heaviside_factor) ==
    [gm EXCEPT !.heaviside_factor = heaviside_factor]

\* Clone::clone: every array copied (to_owned), the factor copied.
clone(gm) ==
    [weights |-> gm.weights,
     means |-> gm.means,
     covariances |-> gm.covariances,
     precisions |-> gm.precisions,
     precisions_chol |-> gm.precisions_chol,
     heaviside_factor |-> gm.heaviside_factor]

\* (mutation: powf(heaviside_factor, 0.5))
HeavisideScaling_Inverse(heaviside_factor) == FxSqrt(heaviside_factor)

\* powf(heaviside_factor, -0.5)
HeavisideScaling(heaviside_factor) == FxDiv(Scale, FxSqrt(heaviside_factor))

RECURSIVE FSumSeq(_)
FSumSeq(s) == IF Len(s) = 0 THEN Fin(0) ELSE FAdd(s[1], FSumSeq(Tail(s)))

\* compute_log_det_cholesky_full: each matrix is flattened to n_features^2
\* entries, every (n_features + 1)-th of them (the diagonal) is taken, and
\* the logarithms are summed.
compute_log_det_cholesky_full(matrix_chol, n_features) ==
    [k \in 1..Len(matrix_chol) |->
        FSumSeq([d \in 1..n_features |->
                   FLn(Fin(matrix_chol[k][(((d - 1) * (n_features + 1)) \div n_features) + 1]
                                         [(((d - 1) * (n_features + 1)) % n_features) + 1]))])]

\* &self.precisions_chol * factor
ScaledPrecisionsChol(precisions_chol, factor) ==
    [k \in 1..Len(precisions_chol) |->
        [i \in 1..Len(precisions_chol[k]) |->
            [j \in 1..Len(precisions_chol[k][i]) |-> FxMul(precisions_chol[k][i][j], factor)]]]

\* (&x - mu).dot(prec_chol) for one observation
Whitened(x, mu, prec_chol) ==
    [j \in 1..Len(x) |->
        SumSeq([i \in 1..Len(x) |-> FxMul(x[i] - mu[i], prec_chol[i][j])])]

\* diff.mapv(|v| v * v).sum_axis(Axis(1)) for one observation
SumSquares(diff) == SumSeq([j \in 1..Len(diff) |-> FxMul(diff[j], diff[j])])

\* estimate_log_gaussian_prob after the scaling of precisions_chol
LogGaussianProb(observations, means, precs, log_det, n_features) ==
    [n \in 1..Len(observations) |->
        [k \in 1..Len(means) |->
            FAdd(Fin(FxMul(-(Scale \div 2),
                           SumSquares(Whitened(observations[n], means[k], precs[k]))
                             + n_features * LnTwoPi)),
                 log_det[k])]]

LogGaussianProbOf(observations, means, precs, n_features) ==
    LogGaussianProb(observations, means, precs,
                    compute_log_det_cholesky_full(precs, n_features), n_features)

\* estimate_log_gaussian_prob
estimate_log_gaussian_prob(gm, observations) ==
    LogGaussianProbOf(observations, gm.means,
                      ScaledPrecisionsChol(gm.precisions_chol,
                                           HeavisideScaling(gm.heaviside_factor)),
                      IF Len(observations) = 0 THEN 0 ELSE Len(observations[1]))

\* estimate_log_weights
estimate_log_weights(gm) == [k \in 1..Len(gm.weights) |-> FLn(Fin(gm.weights[k]))]

\* estimate_log_prob
estimate_log_prob(gm, observations) == estimate_log_gaussian_prob(gm, observations)

\* log_prob + log_weights, the weights broadcast over the rows
AddLogWeights(log_prob, log_weights) ==
    [n \in 1..Len(log_prob) |->
        [k \in 1..Len(log_prob[n]) |-> FAdd(log_prob[n][k], log_weights[k])]]

\* estimate_weighted_log_prob
estimate_weighted_log_prob(gm, observations) ==
    AddLogWeights(estimate_log_prob(gm, observations), estimate_log_weights(gm))

\* sum_axis(Axis(1)) of exponentials: left to right from 0.
RECURSIVE FSumExpFrom(_, _, _)
FSumExpFrom(row, acc, k) ==
    IF k > Len(row) THEN acc ELSE FSumExpFrom(row, FAddExp(acc, row[k]), k + 1)

FSumExp(row) == FSumExpFrom(row, Fin(0), 1)

\* mapv(exp)
ExpRows(rows) == [n \in 1..Len(rows) |-> [k \in 1..Len(rows[n]) |-> FExp(rows[n][k])]]

\* weighted_log_prob.mapv(exp).sum_axis(Axis(1)).mapv(ln): the logarithm of
\* the plain sum of the exponentials.
LogProbNorm(exps) == [n \in 1..Len(exps) |-> FLn(FSumExp(exps[n]))]

\* weighted_log_prob - log_prob_norm, the norm broadcast over the columns
LogProbResp(weighted_log_prob, log_prob_norm) ==
    [log_prob_norm |-> log_prob_norm,
     log_resp |-> [n \in 1..Len(weighted_log_prob) |->
                      [k \in 1..Len(weighted_log_prob[n]) |->
                          FSub(weighted_log_prob[n][k], log_prob_norm[n])]]]

LogProbRespOf(weighted_log_prob) ==
    LogProbResp(weighted_log_prob, LogProbNorm(ExpRows(weighted_log_prob)))

\* estimate_log_prob_resp
estimate_log_prob_resp(gm, observations) ==
    LogProbRespOf(estimate_weighted_log_prob(gm, observations))

\* predict_probas
predict_probas(gm, observations) ==
    ExpRows(estimate_log_prob_resp(gm, observations).log_resp)

\* row.argmax() (ndarray-stats): the first index whose element is greater
\* than every element before it and not less than any after it; an error on
\* an empty row, and on a NaN (no order).  Indices are 0-based.
RECURSIVE ArgmaxFrom(_, _, _)
ArgmaxFrom(row, best, k) ==
    IF k > Len(row) THEN best
    ELSE ArgmaxFrom(row, IF FGreaterExp(row[k], row[best]) THEN k ELSE best, k + 1)

\* (mutation: the last of the maximal elements)
argmax_last(row) ==
    IF Len(row) = 0 THEN Err("MinMaxError", "EmptyInput")
    ELSE IF \E k \in 1..Len(row) : row[k].c = "nan" THEN Err("MinMaxError", "UndefinedOrder")
    ELSE Ok((CHOOSE k \in 1..Len(row) :
                /\ \A j \in 1..Len(row) : ~FGreaterExp(row[j], row[k])
                /\ \A j \in (k + 1)..Len(row) : FGreaterExp(row[k], row[j])) - 1)

argmax(row) ==
    IF Len(row) = 0 THEN Err("MinMaxError", "EmptyInput")
    ELSE IF \E k \in 1..Len(row) : row[k].c = "nan" THEN Err("MinMaxError", "UndefinedOrder")
    ELSE Ok(ArgmaxFrom(row, 1, 1) - 1)

\* Zip::from(&mut targets).and(resp.genrows()).apply(|t, r| *t = r.argmax().unwrap())
Unwrapped(labels) ==
    IF \E n \in 1..Len(labels) : labels[n].status # "Ok"
    THEN Panic("argmax")
    ELSE Ok([n \in 1..Len(labels) |-> labels[n].value])

ArgmaxRows(probas) == Unwrapped([n \in 1..Len(probas) |-> argmax(probas[n])])

\* PredictRef::predict_ref: argmax of each row of exp(log_resp), unwrapped.
predict_ref(gm, observations) ==
    ArgmaxRows(ExpRows(estimate_log_prob_resp(gm, observations).log_resp))

(***************************************************************************)
(* estimate_gaussian_parameters.  A responsibility may be as small as a    *)
(* few machine epsilons, far below the resolution: it is held as           *)
(* fx / Scale + ulp * epsilon.                                             *)
(***************************************************************************)
Resp(fx, ulp) == [fx |-> fx, ulp |-> ulp]

RAdd(a, b) == Resp(a.fx + b.fx, a.ulp + b.ulp)

RECURSIVE RSumSeq(_)
RSumSeq(s) == IF Len(s) = 0 THEN Resp(0, 0) ELSE RAdd(s[1], RSumSeq(Tail(s)))

\* a < b (an epsilon is far below the resolution)
RLess(a, b) == a.fx < b.fx \/ (a.fx = b.fx /\ a.ulp < b.ulp)

\* r * x for a fixed-point x
RMulFx(r, x) ==
    Resp(FxMul(r.fx, x),
         (Sign(r.ulp) * Sign(x)) * ((Abs(r.ulp) * Abs(x) + Scale \div 2) \div Scale))

\* a / b for b > 0, as a fixed-point number
RDiv(a, b) ==
    IF b.fx > 0 THEN FxDiv(a.fx, b.fx)
    ELSE Sign(a.ulp) * ((Abs(a.ulp) * Scale + b.ulp \div 2) \div b.ulp)

\* F::from(10.).unwrap() * F::epsilon()
TenEpsilon == Resp(0, 10)

\* nk.argmin() (ndarray-stats): the first index of the least element, 0-based.
RECURSIVE ArgminFrom(_, _, _)
ArgminFrom(nk, best, k) ==
    IF k > Len(nk) THEN best
    ELSE ArgminFrom(nk, IF RLess(nk[k], nk[best]) THEN k ELSE best, k + 1)

Argmin(nk) == ArgminFrom(nk, 1, 1) - 1

\* (mutation: the 0-based index of the least element)
EmptyClusterMessage_ZeroBased(nk) ==
    "Cluster #" \o ToString(Argmin(nk))
      \o " has no more point. Consider decreasing number of clusters or change initialization."

\* The message of MoeError::EmptyCluster.
EmptyClusterMessage(nk) ==
    "Cluster #" \o ToString(Argmin(nk) + 1)
      \o " has no more point. Consider decreasing number of clusters or change initialization."

\* resp.sum_axis(Axis(0))
ColumnSums(resp, n_clusters) ==
    [k \in 1..n_clusters |-> RSumSeq([n \in 1..Len(resp) |-> resp[n][k]])]

\* resp.t().dot(observations) / nk2
WeightedMeans(observations, resp, nk, n_features) ==
    [k \in 1..Len(nk) |->
        [d \in 1..n_features |->
            RDiv(RSumSeq([n \in 1..Len(resp) |-> RMulFx(resp[n][k], observations[n][d])]),
                 nk[k])]]

\* &diff.t() * &resp.index_axis(Axis(1), k), then .dot(&diff) / nk[k]
WeightedScatter(diff, resp, k, nkk) ==
    [d \in 1..Len(diff[1]) |->
        [e \in 1..Len(diff[1]) |->
            RDiv(RSumSeq([n \in 1..Len(diff) |->
                            RMulFx(RMulFx(resp[n][k], diff[n][d]), diff[n][e])]),
                 nkk)]]

\* cov.diag_mut().mapv_inplace(|x| x + reg_covar)
Regularized(cov, reg_covar) ==
    [d \in 1..Len(cov) |->
        [e \in 1..Len(cov) |-> cov[d][e] + (IF d = e THEN reg_covar ELSE 0)]]

\* estimate_gaussian_covariances_full
estimate_gaussian_covariances_full(observations, resp, nk, means, reg_covar) ==
    [k \in 1..Len(means) |->
        Regularized(WeightedScatter([n \in 1..Len(observations) |->
                                        [d \in 1..Len(means[k]) |->
                                            observations[n][d] - means[k][d]]],
                                    resp, k, nk[k]),
                    reg_covar)]

\* the result of estimate_gaussian_parameters once the means are known
EstimatedParameters(observations, resp, nk, means, reg_covar) ==
    Ok([nk |-> nk, means |-> means,
        covariances |->
            estimate_gaussian_covariances_full(observations, resp, nk, means, reg_covar)])

\* estimate_gaussian_parameters after nk is summed
CheckedParameters(observations, resp, nk, n_features, reg_covar) ==
    IF Len(nk) = 0 THEN Panic("min")
    ELSE IF RLess(nk[Argmin(nk) + 1], TenEpsilon)
    THEN Err("EmptyCluster", EmptyClusterMessage(nk))
    ELSE EstimatedParameters(observations, resp, nk,
                             WeightedMeans(observations, resp, nk, n_features), reg_covar)

\* estimate_gaussian_parameters
estimate_gaussian_parameters(observations, resp, reg_covar) ==
    CheckedParameters(observations, resp,
                      ColumnSums(resp, IF Len(resp) = 0 THEN 0 ELSE Len(resp[1])),
                      IF Len(observations) = 0 THEN 0 ELSE Len(observations[1]),
                      reg_covar)

(***************************************************************************)
(* The inputs of the mixture operations.                                   *)
(***************************************************************************)
\* The number of rows of an observation matrix is at most MaxSamples.
MaxSamples == 1

PD3 == << <<3 * Scale, 0>>, <<0, 3 * Scale>> >>
PDCorrelated == << <<4 * Scale, 2 * Scale>>, <<2 * Scale, 2 * Scale>> >>
Indefinite == << <<1 * Scale, 2 * Scale>>, <<2 * Scale, 1 * Scale>> >>
ZeroMatrix == << <<0, 0>>, <<0, 0>> >>

CovarianceSlices == {PD3, PDCorrelated, Indefinite, ZeroMatrix}

\* weights and means: the two components of test_gaussian_mixture, an
\* unbalanced pair, and three components.
MixtureShapes ==
    { [weights |-> <<5000, 5000>>, means |-> << <<0, 0>>, <<4 * Scale, 4 * Scale>> >>],
      [weights |-> <<2500, 7500>>, means |-> << <<0, 0>>, <<4 * Scale, 4 * Scale>> >>],
      [weights |-> <<5000, 2500, 2500>>,
       means |-> << <<0, 0>>, <<4 * Scale, 4 * Scale>>, <<8 * Scale, 0>> >>] }

HeavisideFactors == {5000, 9900, 2 * Scale}

\* Samples on the segment between the first two means (nearer to the first,
\* at the midpoint, nearer to the second), and one far from every mean.
SampleChoices ==
    { <<1 * Scale, 1 * Scale>>, <<2 * Scale, 2 * Scale>>,
      <<3 * Scale, 3 * Scale>>, <<100 * Scale, 100 * Scale>> }

SeqsUpTo(S, n) == UNION { [1..m -> S] : m \in 1..n }

Observations == SeqsUpTo(SampleChoices, MaxSamples)

\* Rows of responsibilities over two components: hard and even assignments,
\* a component left with a few epsilons, and a row that has collapsed for both.
RespRows ==
    { <<Resp(Scale, 0), Resp(0, 0)>>, <<Resp(0, 0), Resp(Scale, 0)>>,
      <<Resp(5000, 0), Resp(5000, 0)>>,
      <<Resp(Scale, -4), Resp(0, 4)>>, <<Resp(Scale, -12), Resp(0, 12)>>,
      <<Resp(0, 4), Resp(0, 6)>> }

EstimationSamples == { <<0, 0>>, <<4 * Scale, 4 * Scale>> }

RegCovar == 1

(***************************************************************************)
(* The mixture operations as steps.                                        *)
(***************************************************************************)
NoMixture == [weights |-> << >>]
NoGres == [op |-> "none"]

\* GaussianMixture::new: the caller gets the mixture, or the error and no object.
New(shape, covariances) ==
    /\ gmix = NoMixture
    /\ LET r == GaussianMixtureNew(shape.weights, shape.means, covariances)
       IN  /\ gmix' = IF r.status = "Ok" THEN r.value ELSE gmix
           /\ gres' = [op |-> "new", covariances |-> covariances,
                       out |-> IF r.status = "Ok" THEN Ok(0) ELSE r]

WithHeavisideFactor(h) ==
    /\ gmix # NoMixture
    /\ gmix' = with_heaviside_factor(gmix, h)
    /\ gres' = [op |-> "with_heaviside_factor"]

\* clone: the caller goes on with the copy.
Clone ==
    /\ gmix # NoMixture
    /\ gmix' = clone(gmix)
    /\ gres' = [op |-> "clone", original |-> gmix]

PredictProbas(obs) ==
    /\ gmix # NoMixture
    /\ gres' = [op |-> "predict_probas", obs |-> obs, out |-> Ok(predict_probas(gmix, obs))]
    /\ UNCHANGED gmix

Predict(obs) ==
    /\ gmix # NoMixture
    /\ gres' = [op |-> "predict", obs |-> obs, out |-> predict_ref(gmix, obs)]
    /\ UNCHANGED gmix

\* The M-step of a fitting loop, before a mixture is built from its result.
EstimateGaussianParameters(obs, resp) ==
    /\ gmix = NoMixture
    /\ gres' = [op |-> "estimate_gaussian_parameters", obs |-> obs, resp |-> resp,
                out |-> estimate_gaussian_parameters(obs, resp, RegCovar)]
    /\ UNCHANGED gmix

(***************************************************************************)
(* The surrogate operations as steps.                                      *)
(***************************************************************************)
NoRes == [op |-> "none", path |-> "", out |-> Ok(0), before |-> NoFile]

\* GpSurrogateParams::fit: the engine trains a surrogate of the builder's variant.
Fit(g) ==
    /\ gp' = g
    /\ res' = [op |-> "fit", path |-> "", out |-> Ok(0), before |-> NoFile]
    /\ UNCHANGED disk

Save(path, wr) ==
    /\ gp # NoGp
    /\ LET r == save(gp, disk, path, wr)
       IN  /\ disk' = [disk EXCEPT ![path] = r.file]
           /\ res' = [op |-> "save", path |-> path, out |-> r.out, before |-> disk[path]]
    /\ UNCHANGED gp

Load(path) ==
    /\ res' = [op |-> "load", path |-> path, out |-> load(disk, path), before |-> disk[path]]
    /\ UNCHANGED <<disk, gp>>

\* Another program writes a file.
PutFile(path, file) ==
    /\ Creatable(path)
    /\ disk' = [disk EXCEPT ![path] = file]
    /\ res' = [op |-> "put", path |-> path, out |-> Ok(0), before |-> disk[path]]
    /\ UNCHANGED gp

\* The surrogate is formatted (to_string, println!): the text written.
Fmt ==
    /\ gp # NoGp
    /\ res' = [op |-> "fmt", path |-> "", out |-> Ok(Display(gp)), before |-> NoFile]
    /\ UNCHANGED <<disk, gp>>

Init ==
    /\ disk = [p \in Paths |-> NoFile]
    /\ gp = NoGp
    /\ res = NoRes
    /\ gmix = NoMixture
    /\ gres = NoGres

Next ==
    \/ \E g \in TrainedSurrogates : Fit(g) /\ UNCHANGED gvars
    \/ \E p \in Paths, wr \in WriteOutcomes : Save(p, wr) /\ UNCHANGED gvars
    \/ \E p \in Paths : Load(p) /\ UNCHANGED gvars
    \/ \E p \in Paths, f \in ForeignFiles : PutFile(p, f) /\ UNCHANGED gvars
    \/ Fmt /\ UNCHANGED gvars

Spec == Init /\ [][Next]_vars

NextGmm ==
    \/ \E shape \in MixtureShapes :
          \E covariances \in [1..Len(shape.weights) -> CovarianceSlices] :
             New(shape, covariances) /\ UNCHANGED svars
    \/ \E h \in HeavisideFactors : WithHeavisideFactor(h) /\ UNCHANGED svars
    \/ Clone /\ UNCHANGED svars
    \/ \E obs \in Observations : PredictProbas(obs) /\ UNCHANGED svars
    \/ \E obs \in Observations : Predict(obs) /\ UNCHANGED svars
    \/ \E obs \in SeqsUpTo(EstimationSamples, MaxSamples) :
          \E resp \in [1..Len(obs) -> RespRows] :
             EstimateGaussianParameters(obs, resp) /\ UNCHANGED svars

SpecGmm == Init /\ [][NextGmm]_vars

(***************************************************************************)
(* Properties of persistence (checked under Spec).                         *)
(***************************************************************************)
\* s contains t as a substring.
Contains(s, t) ==
    \E i \in 1..(Len(s) - Len(t) + 1) : SubSeq(s, i, i + Len(t) - 1) = t

\* The twelve "{mean}_{corr}" combinations of the declared variants.
KnownCombinations == {v[1] \o "_" \o v[2] : v \in Variants}

\* The file the last load read is a JSON document.
LoadedJson == res.op = "load" /\ res.before.k = "json"

\* C1: save(m, path) followed by load(path) succeeds and returns a surrogate
\* of m's variant with m's theta, inner_params, w_star, xtrain and ytrain:
\* right after a successful save the file at the path loads as m, and a
\* load that reads the record m was saved as returns m.
C1_SaveLoadRoundTrip ==
    /\ (res.op = "save" /\ res.out.status = "Ok") =>
          LET r == load(disk, res.path)
          IN  r.status = "Ok" /\ r.value = gp
    /\ (/\ res.op = "load" /\ gp # NoGp
        /\ save(gp, disk, res.path, "ok").out.status = "Ok"
        /\ res.before = save(gp, disk, res.path, "ok").file) =>
          (res.out.status = "Ok" /\ res.out.value = gp)

C1_Witness ==
    /\ res.op = "load" /\ gp \in TrainedSurrogates
    /\ save(gp, disk, res.path, "ok").out.status = "Ok"
    /\ res.before = save(gp, disk, res.path, "ok").file
    /\ res.out.status = "Ok"
    /\ res.out.value.regr = "Quadratic" /\ res.out.value.corr = "AbsoluteExponential"

\* C2: load on a well-formed record whose mean and corr strings do not form
\* one of the twelve known combinations returns a LoadError whose message
\* contains the key "{mean}_{corr}".
UnknownKind ==
    /\ LoadedJson
    /\ as_str(Index(res.before.doc, "mean")).some
    /\ as_str(Index(res.before.doc, "corr")).some
    /\ (as_str(Index(res.before.doc, "mean")).v \o "_"
          \o as_str(Index(res.before.doc, "corr")).v) \notin KnownCombinations

C2_UnknownKindIsLoadError ==
    UnknownKind =>
        /\ res.out.status = "Err"
        /\ res.out.kind = "LoadError"
        /\ Contains(res.out.msg,
                    as_str(Index(res.before.doc, "mean")).v \o "_"
                      \o as_str(Index(res.before.doc, "corr")).v)

C2_Witness ==
    /\ UnknownKind
    /\ as_str(Index(res.before.doc, "mean")).v = "Matern52"
    /\ res.out.status = "Err"

\* C3 (as claimed): load on a JSON file whose mean or corr is absent or not a
\* string, or one of whose five fields is absent or undecodable, returns a
\* LoadError; it never panics and never returns a surrogate.
MalformedRecord ==
    /\ LoadedJson
    /\ \/ ~as_str(Index(res.before.doc, "mean")).some
       \/ ~as_str(Index(res.before.doc, "corr")).some
       \/ \E i \in 1..Len(DataFields) :
             from_value(res.before.doc, DataFields[i]).status # "Ok"

C3_MalformedIsLoadError ==
    MalformedRecord => (res.out.status = "Err" /\ res.out.kind = "LoadError")

\* C4: load on a path at which no file exists returns an error, never panics.
C4_MissingFileIsError ==
    (res.op = "load" /\ res.before.k = "none") => res.out.status = "Err"

C4_Witness ==
    res.op = "load" /\ res.before.k = "none" /\ res.out.status = "Err"

\* C5 (as claimed): save either succeeds, leaving a record load accepts, or
\* reports a SaveError; on failure the file at the path is as it was before
\* (no empty or partial file, a valid file not destroyed).
C5_SaveAtomicOrSaveError ==
    res.op = "save" =>
        \/ res.out.status = "Ok" /\ load(disk, res.path).status = "Ok"
        \/ /\ res.out.status = "Err" /\ res.out.kind = "SaveError"
           /\ disk[res.path] = res.before

\* A symmetric 2 x 2 matrix is positive-definite when its leading minors are
\* positive.
PositiveDefinite(A) ==
    A[1][1] > 0 /\ FxMul(A[1][1], A[2][2]) - FxMul(A[2][1], A[1][2]) > 0

\* C6: GaussianMixture::new returns a LinalgError and produces no mixture
\* whenever at least one covariance slice is not positive-definite, at
\* whichever index; it returns a mixture only when every slice factorizes.
C6_NewFailsOnAnyNonPDSlice ==
    gres.op = "new" =>
        IF \E k \in 1..Len(gres.covariances) : ~PositiveDefinite(gres.covariances[k])
        THEN /\ gres.out.status = "Err"
             /\ gres.out.kind = "LinalgError"
             /\ gmix = NoMixture
        ELSE /\ gres.out.status = "Ok"
             /\ gmix # NoMixture
             /\ gmix.covariances = gres.covariances

C6_Witness ==
    /\ gres.op = "new"
    /\ Len(gres.covariances) = 3
    /\ PositiveDefinite(gres.covariances[1])
    /\ PositiveDefinite(gres.covariances[2])
    /\ ~PositiveDefinite(gres.covariances[3])
    /\ gres.out.status = "Err"
    /\ gmix = NoMixture

\* The value of a probability at the resolution.
Linear(p) == IF p.c = "exp" THEN FxExpNeg(-p.v) ELSE p.v

\* 1e-6 is below the resolution: a sum is 1 when it is within a thousandth.
RowSumTolerance == Scale \div 1000

RowSumsToOne(row) ==
    /\ \A k \in 1..Len(row) : row[k].c = "fin" \/ (row[k].c = "exp" /\ row[k].v <= 0)
    /\ Abs(SumSeq([k \in 1..Len(row) |-> Linear(row[k])]) - Scale) <= RowSumTolerance

\* exp(weighted_log_prob) is 0 for every component of the sample.
AllUnderflow(gm, x) ==
    \A k \in 1..Len(gm.weights) :
        FExp(estimate_weighted_log_prob(gm, <<x>>)[1][k]) = Fin(0)

\* C7 (as claimed): for every valid mixture and every X each row of
\* predict_probas(X) sums to 1 within tolerance, samples far from every
\* component mean included.
C7_RowsSumToOne ==
    gres.op = "predict_probas" =>
        \A n \in 1..Len(gres.obs) : RowSumsToOne(gres.out.value[n])

\* The rows of predict_probas sum to 1 for the samples at which not every
\* exponential underflows.
RowsSumToOneUnlessUnderflow ==
    gres.op = "predict_probas" =>
        \A n \in 1..Len(gres.obs) :
            AllUnderflow(gmix, gres.obs[n]) \/ RowSumsToOne(gres.out.value[n])

\* C8: predict(X)[n] is the index that maximizes predict_probas(X)[n, k],
\* the lowest such index when several components share the maximum.
C8_PredictIsFirstArgmax ==
    gres.op = "predict" =>
        /\ gres.out.status = "Ok"
        /\ \A n \in 1..Len(gres.obs) :
              LET row == predict_probas(gmix, gres.obs)[n]
                  k == gres.out.value[n] + 1
              IN  /\ k \in 1..Len(row)
                  /\ \A j \in 1..Len(row) : ~FGreaterExp(row[j], row[k])
                  /\ \A j \in 1..(k - 1) : FGreaterExp(row[k], row[j])

C8_Witness ==
    /\ gres.op = "predict"
    /\ gres.out.status = "Ok"
    /\ \E n \in 1..Len(gres.obs) :
          LET row == predict_probas(gmix, gres.obs)[n]
          IN  /\ row[1].c = "exp" /\ row[1] = row[2]
              /\ \A j \in 1..Len(row) : ~FGreaterExp(row[j], row[1])
              /\ gres.out.value[n] = 0

\* nk of the last estimation: the column sums of its responsibilities.
LastNk == ColumnSums(gres.resp, Len(gres.resp[1]))

\* Some component of the last estimation has nk below 10 epsilon.
SomeClusterEmpty ==
    /\ gres.op = "estimate_gaussian_parameters"
    /\ \E k \in 1..Len(LastNk) : RLess(LastNk[k], TenEpsilon)

\* The message names the number j.
Names(msg, j) == Contains(msg, "#" \o ToString(j) \o " ")

\* C9 (as claimed): estimate_gaussian_parameters fails with EmptyCluster
\* whenever some nk[k] is below 10 epsilon, the error names the index of the
\* column of an offending component in resp, and nothing is returned.
C9_EmptyClusterNamesColumnIndex ==
    SomeClusterEmpty =>
        /\ gres.out.status = "Err"
        /\ gres.out.kind = "EmptyCluster"
        /\ \E k \in 1..Len(LastNk) :
              RLess(LastNk[k], TenEpsilon) /\ Names(gres.out.msg, k - 1)

\* C9 (amended): estimate_gaussian_parameters fails with EmptyCluster
\* whenever some nk[k] is below 10 epsilon, the error names the 1-based
\* ordinal of the first component of least nk (its column index plus one),
\* and nothing is returned; otherwise it returns the parameters.
C9_EmptyClusterNamesOrdinalOfLeast ==
    gres.op = "estimate_gaussian_parameters" =>
        IF SomeClusterEmpty
        THEN /\ gres.out.status = "Err"
             /\ gres.out.kind = "EmptyCluster"
             /\ \E k \in 1..Len(LastNk) :
                   /\ RLess(LastNk[k], TenEpsilon)
                   /\ \A j \in 1..Len(LastNk) : ~RLess(LastNk[j], LastNk[k])
                   /\ \A j \in 1..(k - 1) : RLess(LastNk[k], LastNk[j])
                   /\ Names(gres.out.msg, k)
                   /\ \A j \in (0..Len(LastNk)) \ {k} : ~Names(gres.out.msg, j)
        ELSE gres.out.status = "Ok"

C9_Witness ==
    /\ SomeClusterEmpty
    /\ ~RLess(LastNk[1], TenEpsilon)
    /\ RLess(LastNk[2], TenEpsilon)
    /\ gres.out.status = "Err"
    /\ Names(gres.out.msg, 2)

\* (x - mu)^T P (x - mu)
Mahalanobis(x, mu, P) ==
    SumSeq([i \in 1..Len(x) |->
              SumSeq([j \in 1..Len(x) |->
                        FxMul(FxMul(x[i] - mu[i], P[i][j]), x[j] - mu[j])])])

\* x is nearer to component k than to every other one, by the component's
\* own precision.
MahalanobisNearest(gm, x, k) ==
    \A j \in (1..Len(gm.means)) \ {k} :
        Mahalanobis(x, gm.means[k], gm.precisions[k])
          < Mahalanobis(x, gm.means[j], gm.precisions[j])

\* (x - mu)^T (x - mu)
SquaredDistance(x, mu) == SumSeq([i \in 1..Len(x) |-> FxMul(x[i] - mu[i], x[i] - mu[i])])

\* x is nearer to the mean of component k than to the mean of every other one.
NearestMean(gm, x, k) ==
    \A j \in (1..Len(gm.means)) \ {k} :
        SquaredDistance(x, gm.means[k]) < SquaredDistance(x, gm.means[j])

\* The heaviside factors below the one of the mixture.
LowerFactors == {h \in HeavisideFactors \cup {Scale} : h < gmix.heaviside_factor}

\* C10 (as claimed): for a point nearer to one component's mean than to the
\* others', increasing heaviside_factor strictly increases predict_probas of
\* the nearer component at that point.
C10_IncreasingFactorSharpens ==
    gres.op = "predict_probas" =>
        \A h \in LowerFactors : \A n \in 1..Len(gres.obs) : \A k \in 1..Len(gmix.means) :
            NearestMean(gmix, gres.obs[n], k) =>
                FGreaterExp(gres.out.value[n][k],
                            predict_probas(with_heaviside_factor(gmix, h), gres.obs)[n][k])

\* C10 (amended): heaviside_factor divides the precision used in probability
\* evaluation, so for a point nearer (by each component's own precision) to
\* one component than to every other, increasing heaviside_factor never
\* increases predict_probas of that component at the point.
C10_IncreasingFactorSoftens ==
    gres.op = "predict_probas" =>
        \A h \in LowerFactors : \A n \in 1..Len(gres.obs) : \A k \in 1..Len(gmix.means) :
            MahalanobisNearest(gmix, gres.obs[n], k) =>
                ~FGreaterExp(gres.out.value[n][k],
                             predict_probas(with_heaviside_factor(gmix, h), gres.obs)[n][k])

\* The same, strictly: the probability of the nearest component decreases.
StrictlySoftens ==
    gres.op = "predict_probas" =>
        \A h \in LowerFactors : \A n \in 1..Len(gres.obs) : \A k \in 1..Len(gmix.means) :
            (MahalanobisNearest(gmix, gres.obs[n], k) /\ gres.out.value[n][k].c = "exp") =>
                FGreaterExp(predict_probas(with_heaviside_factor(gmix, h), gres.obs)[n][k],
                            gres.out.value[n][k])

C10_Witness ==
    /\ gres.op = "predict_probas"
    /\ gmix.heaviside_factor = 2 * Scale
    /\ gres.obs[1] = <<1 * Scale, 1 * Scale>>
    /\ MahalanobisNearest(gmix, gres.obs[1], 1)
    /\ NearestMean(gmix, gres.obs[1], 1)
    /\ gres.out.value[1][1].c = "exp"
    /\ FGreaterExp(predict_probas(with_heaviside_factor(gmix, Scale), gres.obs)[1][1],
                   gres.out.value[1][1])

\* The fields of a mixture other than heaviside_factor.
StoredArrays(gm) ==
    <<gm.weights, gm.means, gm.covariances, gm.precisions, gm.precisions_chol>>

\* The derived fields are those the constructor computes from the
\* covariances, and each precision is its Cholesky factor times the
\* transpose of the factor.
DerivedAtConstruction(gm) ==
    /\ compute_precisions_cholesky_full(gm.covariances) = Ok(gm.precisions_chol)
    /\ \A k \in 1..Len(gm.precisions_chol) :
          gm.precisions[k] = MatMul(gm.precisions_chol[k], Transpose(gm.precisions_chol[k]))

\* C11: in every state reachable from GaussianMixture::new by
\* with_heaviside_factor, clone, predict and predict_probas, the stored
\* weights, means, covariances, precisions and precisions_chol are those
\* fixed at construction (no step on a mixture changes them; only
\* heaviside_factor changes, starting at 1), and precisions[k] is
\* precisions_chol[k] times its transpose for every k.
C11_StoredFieldsFixed ==
    /\ [](gmix # NoMixture => DerivedAtConstruction(gmix))
    /\ []((gres.op = "new" /\ gmix # NoMixture) => gmix.heaviside_factor = Scale)
    /\ []((gres.op = "clone") => gmix = gres.original)
    /\ [][gmix # NoMixture => StoredArrays(gmix') = StoredArrays(gmix)]_vars

C11_Witness ==
    /\ gres.op = "clone"
    /\ gres.original.heaviside_factor = 2 * Scale
    /\ gmix.heaviside_factor = 2 * Scale
    /\ gmix.covariances = <<PD3, PDCorrelated>>
    /\ DerivedAtConstruction(gmix)
    /\ gmix.precisions_chol[2] # gmix.precisions[2]

\* The label up to the PLS suffix, if it has one.
WithoutPls(label) ==
    IF \E i \in 1..(Len(label) - 4) : SubSeq(label, i, i + 4) = "_PLS("
    THEN SubSeq(label, 1,
                (CHOOSE i \in 1..(Len(label) - 4) : SubSeq(label, i, i + 4) = "_PLS(") - 1)
    ELSE label

\* The dispatch key load forms from the record it last read.
LoadedKey ==
    as_str(Index(res.before.doc, "mean")).v \o "_" \o as_str(Index(res.before.doc, "corr")).v

\* C12: the Display label of a trained surrogate of each of the 12 variants
\* is "<Mean>_<Corr>" when no PLS dimension is active and
\* "<Mean>_<Corr>_PLS(<dim>)" when one is; the label without the suffix is
\* the "{mean}_{corr}" key under which load constructs that same variant,
\* and no key constructs a variant its label does not name.
C12_LabelIsDispatchKey ==
    /\ res.op = "fmt" =>
          /\ \E v \in Variants :
                /\ gp.regr = v[1] /\ gp.corr = v[2]
                /\ WithoutPls(res.out.value) = v[1] \o "_" \o v[2]
          /\ IF gp.w_star = << >>
             THEN res.out.value = WithoutPls(res.out.value)
             ELSE res.out.value
                    = WithoutPls(res.out.value) \o "_PLS(" \o ToString(Len(gp.w_star)) \o ")"
          /\ \E a \in 1..Len(LoadArms) :
                /\ LoadArms[a].key = WithoutPls(res.out.value)
                /\ LoadArms[a].regr = gp.regr /\ LoadArms[a].corr = gp.corr
    /\ (res.op = "load" /\ res.out.status = "Ok") =>
          /\ WithoutPls(Display(res.out.value)) = LoadedKey
          /\ <<res.out.value.regr, res.out.value.corr>> \in Variants
    /\ gp # NoGp =>
          \A a \in 1..Len(LoadArms) :
              (WithoutPls(Display(gp)) = LoadArms[a].key)
                <=> (gp.regr = LoadArms[a].regr /\ gp.corr = LoadArms[a].corr)

C12_Witness ==
    /\ res.op = "fmt"
    /\ gp.regr = "Linear" /\ gp.corr = "Matern32"
    /\ res.out.value = "Linear_Matern32_PLS(1)"
    /\ load(disk, "save_gp.json").status = "Ok"
    /\ Display(load(disk, "save_gp.json").value) = res.out.value

====
